---------------------------- MODULE Spec2Model ----------------------------
(***************************************************************************)
(* Model of VideoSegmentGluer (src/sniffer_class/gluer.py, with the        *)
(* progress-reporting twin in src/build_file.py): the fetch / retry /      *)
(* reassembly pipeline of video-sniffer.  Side specifications cover        *)
(* parse_m3u8_file and VideoIndexCapturer (src/sniffer_class/captures.py)  *)
(* and the window VideoSnifferApp (src/ui/app.py, src/build_file.py).      *)
(*                                                                         *)
(* Strings are sequences of character codes, so that zfill, int() and the  *)
(* ordering that sorted() applies to paths are computed, not assumed.      *)
(* A segment index key is a sequence of decimal digits (0..9).             *)
(***************************************************************************)
EXTENDS Integers, Sequences, FiniteSets, TLC

VARIABLES
    segment_links,    \* the manifest: keys of the dict, in insertion order
    max_workers,      \* self.max_workers
    max_retries,      \* self.max_retries
    cleanup,          \* process(cleanup=...)
    pc,               \* position of the coordinating thread inside process()
    sorted_links,     \* download_all_segments: keys after sort_links()
    segment_files,    \* download_all_segments: destination path of each job
    submitted,        \* executor.map: number of tasks handed to the pool
    dispatched,       \* per job: number of tasks submitted for it
    runs,             \* per job: number of times a worker entered its retry loop
    queue,            \* the pool's work queue (job numbers, FIFO)
    num_threads,      \* worker threads the pool has started
    status,           \* per job: Pending / Fetching / Succeeded / Failed
    attempt,          \* per job: loop variable of _download_segment_with_retry
    calls,            \* per job: number of _download_segment calls made
    first_ok,         \* per job: the call that first returned True, 0 if none
    escaped,          \* per job: TRUE iff an exception left the worker task
    collected,        \* position of the coordinator in the result iterator
    results,          \* results collected by the coordinator, in job order
    successful_files, \* return value of download_all_segments
    files,            \* temp_dir: path -> content, or NoFile
    artifact,         \* content of the output file, or NoFile
    out_opens,        \* number of times the output file was opened for writing
    output_format,    \* process(output_format=...)
    session,          \* self.session: "open" or "closed"
    caller,           \* the entry point that built the gluer: "in_process" / "exited"
    release_log,      \* the release methods called so far, in order
    release_error,    \* TRUE iff a release method has raised
    unlink_failed,    \* cleanup_temp_files: paths whose unlink raised OSError
    cleanup_calls,    \* number of cleanup_temp_files calls made
    key_type,         \* type of the manifest's keys: "str" or "int"
    output_filename,  \* process(output_filename=...), as passed by the caller
    final_name,       \* name passed to combine_segments, or NoName
    index_text,       \* parse_m3u8_file: resp.text
    hrefs,            \* parse_m3u8_file: the returned dict, or NotParsed
    clicks,           \* VideoSnifferApp: run_download threads started
    ui_total,         \* segments of the manifest each download works on
    ui_pc,            \* per run_download thread: where it is
    ui_i,             \* per run_download thread: results taken from the iterator
    ui_finished,      \* per run_download thread: tasks its workers have finished
    sink_callers,     \* the contexts that have called into the progress sink
    meta,             \* download_all_segments(meta): TRUE iff a sink is supplied
    progress,         \* the values set on progress["value"] by one run, in order
    fetch_attempt,    \* one job: loop variable of _download_segment_with_retry
    fetch_result,     \* one job: "running", "True" or "False"
    total,            \* urllib3 Retry.total of the request in flight
    hops,             \* redirects followed in the current session.get
    redirects,        \* one job: redirects followed in all its calls
    sent,             \* one job: HTTP requests sent
    last,             \* the answer to the last request, or NoAnswer
    handled,          \* what the last answer led to
    all_forced,       \* TRUE iff every answer so far had a status of the list
    cap_pc,           \* VideoIndexCapturer.get_index_url: where it is
    page_closed,      \* page.is_closed()
    observed,         \* URLs of the requests passed to capture_segments, in order
    index_link,       \* self.index_link, or Unset while the attribute does not exist
    returned,         \* the value get_index_url returned, or Unset
    selected_folder,  \* VideoSnifferApp.selected_folder
    last_click        \* what the last call of initiate_download saw and did

vars == <<segment_links, max_workers, max_retries, cleanup, pc, sorted_links,
          segment_files, submitted, dispatched, runs, queue, num_threads, status,
          attempt, calls, first_ok, escaped, collected, results,
          successful_files, files, artifact, out_opens, output_format, session,
          caller, release_log, release_error, unlink_failed, cleanup_calls,
          key_type, output_filename, final_name, index_text, hrefs, clicks,
          ui_total, ui_pc, ui_i, ui_finished, sink_callers, meta, progress,
          fetch_attempt, fetch_result, total, hops, redirects, sent, last,
          handled, all_forced, cap_pc, page_closed, observed, index_link,
          returned, selected_folder, last_click>>

\* the variables of the session's life cycle
lifecycle == <<output_format, session, caller, release_log, release_error>>

\* the variables of cleanup_temp_files
cleanup_state == <<unlink_failed, cleanup_calls>>

\* the variables of the output name, of parse_m3u8_file, of the progress
\* sink and of the two retry layers of one job
name_state == <<output_filename, final_name>>
parse_state == <<index_text, hrefs>>
ui_state == <<clicks, ui_total, ui_pc, ui_i, ui_finished, sink_callers, meta,
             progress, selected_folder, last_click>>
transport_state == <<fetch_attempt, fetch_result, total, hops, redirects, sent,
                     last, handled, all_forced>>

\* the variables of VideoIndexCapturer
capture_state == <<cap_pc, page_closed, observed, index_link, returned>>

\* what the pipeline's own steps leave alone
side_state == <<key_type, name_state, parse_state, ui_state, transport_state,
               capture_state>>

\* Bounds of the model.
MaxJobs == 3
MaxWorkers == 2
MaxRetries == 1

\* Index keys the manifests are drawn from, in an insertion order that is
\* neither numeric nor lexical: "10000", "2", "9999", "10".
PoolOrder == << <<1, 0, 0, 0, 0>>, <<2>>, <<9, 9, 9, 9>>, <<1, 0>> >>
KeyPool == { PoolOrder[i] : i \in 1..Len(PoolOrder) }

\* the content of a path at which no file exists (no real chunk has index -1)
NoFile == << <<-1, 0>> >>

-----------------------------------------------------------------------------
(* Strings and paths *)

\* int(key) for a key of decimal digits
RECURSIVE IntOf(_)
IntOf(key) ==
    IF key = <<>> THEN 0
    ELSE 10 * IntOf(SubSeq(key, 1, Len(key) - 1)) + key[Len(key)]

\* str.zfill(width): left-pad with "0" up to width, never truncate
RECURSIVE zfill(_, _)
zfill(key, width) ==
    IF Len(key) >= width THEN key ELSE zfill(<<0>> \o key, width)

ZfillWidth == 4

\* character codes of "segment_" and ".ts"
SegmentPrefix == <<115, 101, 103, 109, 101, 110, 116, 95>>
TsSuffix == <<46, 116, 115>>

DigitChars(key) == [i \in 1..Len(key) |-> 48 + key[i]]

\* one file name for every segment
SegmentFileShared(key) == SegmentPrefix \o TsSuffix

\* self.temp_dir / f'segment_{idx.zfill(4)}.ts'  (the file name; the directory
\* is the same for every segment)
SegmentFile(key) == SegmentPrefix \o DigitChars(zfill(key, ZfillWidth)) \o TsSuffix

\* a < b for two strings, as Python compares str (code point by code point)
RECURSIVE StrLess(_, _)
StrLess(a, b) ==
    IF b = <<>> THEN FALSE
    ELSE IF a = <<>> THEN TRUE
    ELSE IF a[1] # b[1] THEN a[1] < b[1]
    ELSE StrLess(Tail(a), Tail(b))

\* Path.__lt__: paths of one directory compare by file name
PathLess(p, q) == StrLess(p, q)

KeyLess(a, b) == IntOf(a) < IntOf(b)

\* stable insertion of key x into the sequence s sorted by int(key)
RECURSIVE InsertKey(_, _)
InsertKey(x, s) ==
    IF s = <<>> THEN <<x>>
    ELSE IF KeyLess(x, s[Len(s)]) THEN InsertKey(x, SubSeq(s, 1, Len(s) - 1)) \o <<s[Len(s)]>>
    ELSE s \o <<x>>

\* sorted(keys, key=int): stable, ascending (the sorted prefix is bound once,
\* as a value, before the last key is inserted into it)
RECURSIVE SortKeys(_)
SortKeys(s) ==
    IF s = <<>> THEN <<>>
    ELSE CHOOSE r \in { InsertKey(s[Len(s)], rest) :
                           rest \in {SortKeys(SubSeq(s, 1, Len(s) - 1))} } : TRUE

\* sort_links(): dict(sorted(items, key=lambda item: int(item[0])))
sort_links(links) == SortKeys(links)

\* stable insertion of path x into the sequence s sorted by PathLess
RECURSIVE InsertPath(_, _)
InsertPath(x, s) ==
    IF s = <<>> THEN <<x>>
    ELSE IF PathLess(x, s[Len(s)]) THEN InsertPath(x, SubSeq(s, 1, Len(s) - 1)) \o <<s[Len(s)]>>
    ELSE s \o <<x>>

\* sorted(segment_files) in combine_segments: Path ordering, stable
RECURSIVE SortedPaths(_)
SortedPaths(s) ==
    IF s = <<>> THEN <<>>
    ELSE CHOOSE r \in { InsertPath(s[Len(s)], rest) :
                           rest \in {SortedPaths(SubSeq(s, 1, Len(s) - 1))} } : TRUE

-----------------------------------------------------------------------------
(* Segment bodies *)

\* The body of the segment with index n: two chunks, tagged by the index.
ChunksOf(n) == << <<n, 1>>, <<n, 2>> >>
\* The body served for the segment with key k.
Body(key) == ChunksOf(IntOf(key))
\* What an attempt leaves when the stream breaks after the first chunk.
PartialBody(key) == << <<IntOf(key), 1>> >>
\* A file left at a destination path by an earlier run.
StaleBody(key) == << <<IntOf(key), 0>> >>

AllPaths == { SegmentFile(k) : k \in KeyPool }

RECURSIVE Concat(_, _)
Concat(paths, fs) ==
    IF paths = <<>> THEN <<>>
    ELSE fs[paths[1]] \o Concat(Tail(paths), fs)

Jobs == 1..Len(sorted_links)

-----------------------------------------------------------------------------
(* Initial states *)

\* the subsequence of PoolOrder at the positions in I
RECURSIVE SubPool(_, _)
SubPool(I, n) ==
    IF n = 0 THEN <<>>
    ELSE IF n \in I THEN SubPool(I, n - 1) \o <<PoolOrder[n]>>
    ELSE SubPool(I, n - 1)

\* Manifests: dicts of at most MaxJobs entries whose keys are numerically
\* unique (section 3 of the specification), in dict insertion order.
Manifests ==
    { SubPool(I, Len(PoolOrder)) :
        I \in { J \in SUBSET (1..Len(PoolOrder)) : Cardinality(J) <= MaxJobs } }

KeysOf(links) == { links[i] : i \in 1..Len(links) }

NumericallyUnique(links) ==
    \A i, j \in 1..Len(links) : i # j => IntOf(links[i]) # IntOf(links[j])

\* temp_dir before the run: empty, or holding the file an earlier run left at
\* one of the destination paths (cleanup deletes only successful segments).
InitialFiles(links) ==
    { [p \in AllPaths |-> NoFile] } \cup
    { [p \in AllPaths |-> IF p = SegmentFile(k) THEN StaleBody(k) ELSE NoFile] :
        k \in KeysOf(links) }

\* values of the variables that hold no name, no parsed dict, no answer yet
NoName == <<-1>>
NotParsed == << <<<<>>, <<-1>>>> >>
NoAnswer == [status |-> -1, retry_after |-> FALSE]
Unset == <<-1>>
NoClick == [folder |-> <<-1>>, filename |-> <<-1>>, did |-> "none"]

\* Path(): the path "."
CurrentDir == <<46>>

\* nothing but the pipeline is running: the manifest has str keys (as
\* parse_m3u8_file builds it), no window, no single job under observation
NameIdle == output_filename = <<>> /\ final_name = NoName
ParseIdle == index_text = <<>> /\ hrefs = NotParsed
UiWindowIdle ==
    /\ clicks = 0
    /\ ui_total = 0
    /\ ui_pc = <<>>
    /\ ui_i = <<>>
    /\ ui_finished = <<>>
    /\ sink_callers = {}
    /\ selected_folder = CurrentDir
    /\ last_click = NoClick
UiIdle == UiWindowIdle /\ meta = FALSE /\ progress = <<>>
TransportIdle ==
    /\ fetch_attempt = 0
    /\ fetch_result = "idle"
    /\ total = 0
    /\ hops = 0
    /\ redirects = 0
    /\ sent = 0
    /\ last = NoAnswer
    /\ handled = "none"
    /\ all_forced = TRUE
CaptureIdle ==
    /\ cap_pc = "idle"
    /\ page_closed = FALSE
    /\ observed = <<>>
    /\ index_link = Unset
    /\ returned = Unset
SideIdle ==
    /\ key_type = "str"
    /\ NameIdle
    /\ ParseIdle
    /\ UiIdle
    /\ TransportIdle
    /\ CaptureIdle

\* the output_format arguments tried: a recognised tag and an unrecognised one
FormatInputs == {"ts", "avi"}

\* a gluer built on a manifest, before process() is called
InitPipeline ==
    /\ segment_links \in Manifests
    /\ NumericallyUnique(segment_links)
    /\ max_workers \in 1..MaxWorkers
    /\ max_retries \in 0..MaxRetries
    /\ cleanup \in BOOLEAN
    /\ pc = "Created"
    /\ sorted_links = <<>>
    /\ segment_files = <<>>
    /\ submitted = 0
    /\ dispatched = <<>>
    /\ runs = <<>>
    /\ queue = <<>>
    /\ num_threads = 0
    /\ status = <<>>
    /\ attempt = <<>>
    /\ calls = <<>>
    /\ first_ok = <<>>
    /\ escaped = <<>>
    /\ collected = 0
    /\ results = <<>>
    /\ successful_files = <<>>
    /\ files \in InitialFiles(segment_links)
    /\ artifact = NoFile
    /\ out_opens = 0
    /\ output_format \in FormatInputs
    /\ session = "open"
    /\ caller = "in_process"
    /\ release_log = <<>>
    /\ release_error = FALSE
    /\ unlink_failed = {}
    /\ cleanup_calls = 0

Init == InitPipeline /\ SideIdle

-----------------------------------------------------------------------------
(* SegmentFetcher: one call of _download_segment *)

\* What one HTTP fetch can do:
\*   ok        - 2xx, the whole body is streamed to the file
\*   status    - raise_for_status() raises HTTPError (file not yet opened)
\*   transport - session.get raises ConnectionError / Timeout
\*   partial   - 2xx, the file is opened, the stream breaks after one chunk
\*   oserror   - filename.open('wb') raises OSError (not a RequestException)
Outcomes == {"ok", "status", "transport", "partial", "oserror"}

\* the outcomes that raise a requests.RequestException
RequestExceptions == {"status", "transport", "partial"}

\* _download_segment: True, False (except RequestException), or the
\* exception that leaves it
DownloadSegment(o) ==
    IF o = "ok" THEN "True"
    ELSE IF o \in RequestExceptions THEN "False"
    ELSE "raise"

\* a destination file opened in append mode
FileAfterAppend(o, key, old) ==
    IF o = "ok" THEN (IF old = NoFile THEN <<>> ELSE old) \o Body(key)
    ELSE IF o = "partial" THEN (IF old = NoFile THEN <<>> ELSE old) \o PartialBody(key)
    ELSE old

\* the destination file after one call: open('wb') truncates, chunks append
FileAfter(o, key, old) ==
    IF o = "ok" THEN Body(key)
    ELSE IF o = "partial" THEN PartialBody(key)
    ELSE old

-----------------------------------------------------------------------------
(* RetryPolicy: _download_segment_with_retry *)

\* a retry loop one attempt short: range(self.max_retries)
RetryAttemptsShort(r) == r

\* range(self.max_retries + 1)
RetryAttempts(r) == r + 1

\* a retry loop that catches only requests.RequestException
CaughtByRetryNarrow(o) == o \in RequestExceptions

\* `except Exception` around the call: every exception is swallowed
CaughtByRetry(o) == TRUE

\* One iteration of the loop, given the call's result r and the loop
\* variable: "return_true", "continue", "return_false" (the loop is
\* exhausted), or "escape" (the exception leaves the worker task).
RetryStep(res, o, att, retries) ==
    IF res = "True" THEN "return_true"
    ELSE IF res = "raise" /\ ~CaughtByRetry(o) THEN "escape"
    ELSE IF att + 1 < RetryAttempts(retries) THEN "continue"
    ELSE "return_false"

-----------------------------------------------------------------------------
(* DownloadCoordinator: download_all_segments *)

\* a pool that never starts a worker thread beyond those it has
PoolSizeNoGrowth == num_threads

\* a pool that starts one thread per task
PoolSizeUnbounded == Len(segment_files)

\* ThreadPoolExecutor(max_workers=self.max_workers)
PoolSize == max_workers

Terminal == {"Succeeded", "Failed"}

Fetching == { j \in Jobs : status[j] = "Fetching" }

\* a task that is reported done as soon as a worker has picked it up
FutureDoneOnStart(j) == status[j] # "Pending"

\* a task's future is done when _download_segment_with_retry has returned
FutureDone(j) == status[j] \in Terminal

\* a dispatch that stops one entry short
TasksToSubmitShort == Len(segment_files) - 1

\* the tasks executor.map submits: one per pair of
\* zip(sorted_links.values(), segment_files)
TasksToSubmit ==
    IF Len(sorted_links) < Len(segment_files) THEN Len(sorted_links)
    ELSE Len(segment_files)

\* a selection that returns every destination path
SuccessfulOfAll(fs, res) == fs

\* [f for f, success in zip(segment_files, results) if success]
RECURSIVE SuccessfulOf(_, _)
SuccessfulOf(fs, res) ==
    IF fs = <<>> \/ res = <<>> THEN <<>>
    ELSE (IF res[1] THEN <<fs[1]>> ELSE <<>>) \o SuccessfulOf(Tail(fs), Tail(res))

\* a check that lets every tag through
ValidFormatAny(fmt) == fmt \in FormatInputs

\* `output_format not in ('ts', 'mp4')` is the negation of this
ValidFormat(fmt) == fmt \in {"ts", "mp4"}

\* process() with an unrecognised output_format raises ValueError at once
RejectFormat ==
    /\ pc = "Created"
    /\ caller = "in_process"
    /\ ~ValidFormat(output_format)
    /\ pc' = "ValueError"
    /\ UNCHANGED <<segment_links, max_workers, max_retries, cleanup,
                   sorted_links, segment_files, submitted, dispatched, runs,
                   queue, num_threads, status, attempt, calls, first_ok, escaped,
                   collected, results, successful_files, files, artifact,
                   out_opens, lifecycle, cleanup_state,
                   side_state>>

\* a sort_links that sorts the manifest itself
ManifestAfterSortInPlace(links) == sort_links(links)

\* self.segment_links after sort_links(): sorted(...) and dict(...) build new
\* objects, the dict held by the gluer is only read
ManifestAfterSort(links) == links

\* idx.zfill(4) on a key of the manifest: str has the method; on an int key
\* the attribute lookup raises AttributeError inside the `with` block
HasZfill(kt) == kt = "str"

\* process() up to the creation of the pool in download_all_segments: the
\* output_format check, sort_links(), the executor, the destination paths
StartDownload ==
    /\ pc = "Created"
    /\ caller = "in_process"
    /\ ValidFormat(output_format)
    /\ IF segment_links # <<>> /\ ~HasZfill(key_type)
       THEN /\ pc' = "Raised"
            /\ UNCHANGED <<sorted_links, segment_files, status, attempt, calls,
                           first_ok, dispatched, runs, escaped>>
       ELSE /\ pc' = "Downloading"
            /\ \E links \in {sort_links(segment_links)} :
                  /\ sorted_links' = links
                  /\ segment_files' \in
                        {[i \in 1..Len(links) |-> SegmentFile(links[i])]}
            /\ status' = [i \in 1..Len(segment_links) |-> "Pending"]
            /\ attempt' = [i \in 1..Len(segment_links) |-> 0]
            /\ calls' = [i \in 1..Len(segment_links) |-> 0]
            /\ first_ok' = [i \in 1..Len(segment_links) |-> 0]
            /\ dispatched' = [i \in 1..Len(segment_links) |-> 0]
            /\ runs' = [i \in 1..Len(segment_links) |-> 0]
            /\ escaped' = [i \in 1..Len(segment_links) |-> FALSE]
    /\ segment_links' = ManifestAfterSort(segment_links)
    /\ UNCHANGED <<max_workers, max_retries, cleanup, submitted,
                   queue, num_threads, collected, results, successful_files,
                   files, artifact, out_opens,
                   lifecycle, cleanup_state,
                   side_state>>

\* executor.map submits the tasks one by one, in sorted order; submit() starts
\* a worker thread while the pool has fewer than max_workers of them
Submit ==
    /\ pc = "Downloading"
    /\ submitted < TasksToSubmit
    /\ submitted' = submitted + 1
    /\ queue' = Append(queue, submitted + 1)
    /\ dispatched' = [dispatched EXCEPT ![submitted + 1] = @ + 1]
    /\ num_threads' = IF num_threads < PoolSize THEN num_threads + 1 ELSE num_threads
    /\ UNCHANGED <<segment_links, max_workers, max_retries, cleanup, pc,
                   sorted_links, segment_files, runs, status, attempt, calls,
                   first_ok, escaped, collected, results, successful_files,
                   files, artifact, out_opens,
                   lifecycle, cleanup_state,
                   side_state>>

\* an idle worker thread takes the oldest task of the queue and enters
\* _download_segment_with_retry
StartJob ==
    /\ queue # <<>>
    /\ Cardinality(Fetching) < num_threads
    /\ status' = [status EXCEPT ![Head(queue)] = "Fetching"]
    /\ runs' = [runs EXCEPT ![Head(queue)] = @ + 1]
    /\ queue' = Tail(queue)
    /\ UNCHANGED <<segment_links, max_workers, max_retries, cleanup, pc,
                   sorted_links, segment_files, submitted, dispatched,
                   num_threads, attempt, calls, first_ok, escaped, collected,
                   results, successful_files, files, artifact, out_opens,
                   lifecycle, cleanup_state,
                   side_state>>

\* a loop that hands a failed job back to the pool instead of retrying it
StatusAfterRequeue(step) ==
    CASE step = "return_true" -> "Succeeded"
      [] step = "continue" -> "Pending"
      [] OTHER -> "Failed"

\* the job after one iteration: `return True`, the next iteration of the same
\* call, or the end of the worker task (`return False` or an exception)
StatusAfter(step) ==
    CASE step = "return_true" -> "Succeeded"
      [] step = "continue" -> "Fetching"
      [] OTHER -> "Failed"

\* one iteration of the retry loop of job j: a call of _download_segment with
\* outcome o, then the loop's decision
Attempt(j, o) ==
    /\ status[j] = "Fetching"
    /\ LET step == RetryStep(DownloadSegment(o), o, attempt[j], max_retries)
       IN  /\ calls' = [calls EXCEPT ![j] = @ + 1]
           /\ first_ok' = [first_ok EXCEPT ![j] =
                               IF o = "ok" /\ @ = 0 THEN calls[j] + 1 ELSE @]
           /\ files' = [files EXCEPT ![segment_files[j]] =
                            FileAfter(o, sorted_links[j], @)]
           /\ attempt' = [attempt EXCEPT ![j] = IF step = "continue" THEN @ + 1 ELSE @]
           /\ status' = [status EXCEPT ![j] = StatusAfter(step)]
           /\ escaped' = [escaped EXCEPT ![j] = (step = "escape")]
    /\ UNCHANGED <<segment_links, max_workers, max_retries, cleanup, pc,
                   sorted_links, segment_files, submitted, dispatched, runs,
                   queue, num_threads, collected, results, successful_files,
                   artifact, out_opens,
                   lifecycle, cleanup_state,
                   side_state>>

\* a collection that keeps only the successes
RecordResultIfTrue(res, r) == IF r THEN Append(res, r) ELSE res

\* results.append(result) (build_file.py); list(...) in gluer.py
RecordResult(res, r) == Append(res, r)

\* a bar that is set from the loop index i
ProgressValueFromIndex(k, n) == <<100 * (k - 1), n>>

\* (i + 1) / len(segment_files) * 100 with k = i + 1: the value as the
\* fraction <<numerator, denominator>>
ProgressValue(k, n) == <<100 * k, n>>

\* the coordinator takes the next result from the iterator of executor.map,
\* which blocks until that task has finished; an exception stored in the
\* future is re-raised in the coordinator.  With a sink (build_file.py) the
\* loop body sets the bar and calls update_idletasks before it appends.
Collect ==
    /\ pc = "Downloading"
    /\ submitted = TasksToSubmit
    /\ collected < submitted
    /\ FutureDone(collected + 1)
    /\ collected' = collected + 1
    /\ IF escaped[collected + 1]
       THEN pc' = "Raised" /\ UNCHANGED results
       ELSE /\ results' = RecordResult(results, status[collected + 1] = "Succeeded")
            /\ UNCHANGED pc
    /\ progress' = IF meta /\ ~escaped[collected + 1]
                   THEN Append(progress, ProgressValue(collected + 1, Len(segment_files)))
                   ELSE progress
    /\ UNCHANGED <<segment_links, max_workers, max_retries, cleanup,
                   sorted_links, segment_files, submitted, dispatched, runs,
                   queue, num_threads, status, attempt, calls, first_ok, escaped,
                   successful_files, files, artifact, out_opens,
                   lifecycle, cleanup_state, key_type, name_state, parse_state,
                   transport_state, clicks, ui_total, ui_pc, ui_i, ui_finished,
                   sink_callers, meta, selected_folder, last_click,
                   capture_state>>

\* leaving the `with` block: shutdown(wait=True) joins every submitted task
PoolJoined == \A j \in 1..submitted : FutureDone(j)

\* a download_all_segments that logs the success ratio unconditionally
LogsRatioAlways(success_count, total_count) == TRUE

\* `if success_count != total_count:` guards the log of
\* success_count / total_count, which raises ZeroDivisionError for 0 jobs
LogsRatio(success_count, total_count) == success_count # total_count

\* the iterator is exhausted: the `with` block ends, the successful paths are
\* selected and download_all_segments returns
ReturnFromDownload ==
    /\ pc = "Downloading"
    /\ submitted = TasksToSubmit
    /\ collected = submitted
    /\ PoolJoined
    /\ LET succ == SuccessfulOf(segment_files, results)
       IN  IF LogsRatio(Len(succ), Len(segment_files)) /\ Len(segment_files) = 0
           THEN pc' = "Raised" /\ UNCHANGED successful_files
           ELSE pc' = "Downloaded" /\ successful_files' = succ
    /\ UNCHANGED <<segment_links, max_workers, max_retries, cleanup,
                   sorted_links, segment_files, submitted, dispatched, runs,
                   queue, num_threads, status, attempt, calls, first_ok, escaped,
                   collected, results, files, artifact, out_opens,
                   lifecycle, cleanup_state,
                   side_state>>

-----------------------------------------------------------------------------
(* process(), after download_all_segments *)

\* a process() without the check for an empty list
NoSegmentsUnchecked(paths) == FALSE

\* `if not segment_files: raise RuntimeError(...)`
NoSegments(paths) == paths = <<>>

CheckSegments ==
    /\ pc = "Downloaded"
    /\ pc' = IF NoSegments(successful_files) THEN "Failed" ELSE "Assembling"
    /\ UNCHANGED <<segment_links, max_workers, max_retries, cleanup,
                   sorted_links, segment_files, submitted, dispatched, runs,
                   queue, num_threads, status, attempt, calls, first_ok, escaped,
                   collected, results, successful_files, files, artifact,
                   out_opens,
                   lifecycle, cleanup_state,
                   side_state>>

\* the readable prefix of a list of paths: reading stops at a missing file
RECURSIVE Readable(_, _)
Readable(paths, fs) ==
    IF paths = <<>> \/ fs[paths[1]] = NoFile THEN <<>>
    ELSE <<paths[1]>> \o Readable(Tail(paths), fs)

\* an output file opened in append mode
OpenOutputAppend(old) == IF old = NoFile THEN <<>> ELSE old

\* output_path.open('wb'): the file is created, or truncated if it exists
OpenOutput(old) == <<>>

\* what combine_segments leaves in the output file: the files of
\* sorted(segment_files) appended in that order, up to the first missing one
Combined(paths, fs, old) == OpenOutput(old) \o Concat(Readable(SortedPaths(paths), fs), fs)

\* every file of the list could be read (else FileNotFoundError is raised)
AllRead(paths, fs) == Readable(SortedPaths(paths), fs) = SortedPaths(paths)

\* a process() that never cleans up
AfterCombineNoCleanup(c) == "Done"

\* a process() that always cleans up
AfterCombineAlways(c) == "Cleanup"

\* `if cleanup: self.cleanup_temp_files(segment_files)`, then return
AfterCombine(c) == IF c THEN "Cleanup" ELSE "Done"

\* combine_segments as called by process(): open the output 'wb', append every
\* file of sorted(segment_files); a missing file raises FileNotFoundError
CombineSegments ==
    /\ pc = "Assembling"
    /\ out_opens' = out_opens + 1
    /\ artifact' = Combined(successful_files, files, artifact)
    /\ pc' = IF AllRead(successful_files, files) THEN AfterCombine(cleanup)
             ELSE "Raised"
    /\ UNCHANGED <<segment_links, max_workers, max_retries, cleanup,
                   sorted_links, segment_files, submitted, dispatched, runs,
                   queue, num_threads, status, attempt, calls, first_ok, escaped,
                   collected, results, successful_files, files, lifecycle,
                   cleanup_state,
                   side_state>>

\* the paths of a list
PathsOf(paths) == { paths[i] : i \in 1..Len(paths) }

\* a cleanup without the try / except around unlink
UnlinkCaughtNever == FALSE

\* `except OSError` around segment_file.unlink(missing_ok=True)
UnlinkCaught == TRUE

\* the paths of the list that come before the first one in F
RECURSIVE Before(_, _)
Before(paths, F) ==
    IF paths = <<>> \/ paths[1] \in F THEN {}
    ELSE {paths[1]} \cup Before(Tail(paths), F)

\* a cleanup that empties temp_dir
UnlinkedWholeDir(paths, F) == AllPaths \ F

\* the paths cleanup_temp_files unlinks when the unlink of the paths in F
\* raises OSError: all the others if the error is caught, else those before
\* the first failure
Unlinked(paths, F) ==
    IF UnlinkCaught THEN PathsOf(paths) \ F ELSE Before(paths, F)

\* the files that exist among those of a list (an absent one is skipped by
\* missing_ok=True; only the unlink of an existing file can fail)
Present(paths, fs) == { p \in PathsOf(paths) : fs[p] # NoFile }

\* cleanup_temp_files(segment_files); F is the set of files whose unlink
\* raises OSError
Cleanup(F) ==
    /\ files' = [p \in AllPaths |->
                    IF p \in Unlinked(successful_files, F) THEN NoFile ELSE files[p]]
    /\ unlink_failed' = F
    /\ cleanup_calls' = cleanup_calls + 1
    /\ pc' = IF F # {} /\ ~UnlinkCaught THEN "Raised" ELSE "Done"

\* cleanup_temp_files as called by process()
CleanupTempFiles ==
    /\ pc = "Cleanup"
    /\ \E F \in SUBSET Present(successful_files, files) : Cleanup(F)
    /\ UNCHANGED <<segment_links, max_workers, max_retries, cleanup,
                   sorted_links, segment_files, submitted, dispatched, runs,
                   queue, num_threads, status, attempt, calls, first_ok, escaped,
                   collected, results, successful_files, artifact, out_opens,
                   lifecycle,
                   side_state>>

-----------------------------------------------------------------------------
(* LifecycleManager: the session *)

\* a session whose close() fails once it is closed
SessionCloseOnce(sess) == IF sess = "open" THEN "closed" ELSE "error"

\* self.session.close(): closes the adapters; harmless on a closed session
SessionClose(sess) == "closed"

\* close(), __exit__() and __del__() all end in self.session.close()
Release(method) ==
    /\ release_log' = Append(release_log, method)
    /\ session' = IF SessionClose(session) = "error" THEN session
                  ELSE SessionClose(session)
    /\ release_error' = (release_error \/ SessionClose(session) = "error")

\* download_cli / download_ui: process() has returned or raised and the
\* function ends; no close() and no `with` on any path
ExitEntryPoint ==
    /\ pc \in {"Done", "Failed", "ValueError", "Raised"}
    /\ caller = "in_process"
    /\ caller' = "exited"
    /\ UNCHANGED <<segment_links, max_workers, max_retries, cleanup, pc,
                   sorted_links, segment_files, submitted, dispatched, runs,
                   queue, num_threads, status, attempt, calls, first_ok, escaped,
                   collected, results, successful_files, files, artifact,
                   out_opens, output_format, session, release_log,
                   release_error, cleanup_state,
                   side_state>>

\* the interpreter reclaims the unreachable gluer and calls __del__, once
Finalize ==
    /\ caller = "exited"
    /\ \A i \in 1..Len(release_log) : release_log[i] # "del"
    /\ Release("del")
    /\ UNCHANGED <<segment_links, max_workers, max_retries, cleanup, pc,
                   sorted_links, segment_files, submitted, dispatched, runs,
                   queue, num_threads, status, attempt, calls, first_ok, escaped,
                   collected, results, successful_files, files, artifact,
                   out_opens, output_format, caller, cleanup_state,
                   side_state>>

Next ==
    \/ RejectFormat
    \/ StartDownload
    \/ Submit
    \/ StartJob
    \/ \E j \in Jobs, o \in Outcomes : Attempt(j, o)
    \/ Collect
    \/ ReturnFromDownload
    \/ CheckSegments
    \/ CombineSegments
    \/ CleanupTempFiles
    \/ ExitEntryPoint
    \/ Finalize

Spec == Init /\ [][Next]_vars

-----------------------------------------------------------------------------
(* combine_segments on its own: called with any list of existing segment
   files, in any order *)

\* the sequences over S without repetition, of length 1..n
InjectiveSeqs(S, n) ==
    UNION { { q \in [1..k -> S] : \A i, j \in 1..k : i # j => q[i] # q[j] } :
              k \in 1..n }

InitCombine ==
    /\ segment_links = <<>>
    /\ max_workers = 1
    /\ max_retries = 0
    /\ cleanup \in BOOLEAN
    /\ pc = "Assembling"
    /\ sorted_links = <<>>
    /\ segment_files = <<>>
    /\ submitted = 0
    /\ dispatched = <<>>
    /\ runs = <<>>
    /\ queue = <<>>
    /\ num_threads = 0
    /\ status = <<>>
    /\ attempt = <<>>
    /\ calls = <<>>
    /\ first_ok = <<>>
    /\ escaped = <<>>
    /\ collected = 0
    /\ results = <<>>
    /\ successful_files \in InjectiveSeqs(AllPaths, Cardinality(AllPaths)) \cup {<<>>}
    /\ files = [p \in AllPaths |->
                  IF \E k \in KeyPool :
                        /\ p = SegmentFile(k)
                        /\ \E i \in 1..Len(successful_files) : successful_files[i] = p
                  THEN Body(CHOOSE k \in KeyPool : p = SegmentFile(k))
                  ELSE NoFile]
    /\ artifact = NoFile
    /\ out_opens = 0
    /\ output_format = "ts"
    /\ session = "open"
    /\ caller = "in_process"
    /\ release_log = <<>>
    /\ release_error = FALSE
    /\ unlink_failed = {}
    /\ cleanup_calls = 0
    /\ SideIdle

\* combine_segments called a second time, with the same list and output name
CombineAgain ==
    /\ pc = "Done"
    /\ out_opens = 1
    /\ out_opens' = out_opens + 1
    /\ artifact' = Combined(successful_files, files, artifact)
    /\ pc' = IF AllRead(successful_files, files) THEN "Done" ELSE "Raised"
    /\ UNCHANGED <<segment_links, max_workers, max_retries, cleanup,
                   sorted_links, segment_files, submitted, dispatched, runs,
                   queue, num_threads, status, attempt, calls, first_ok, escaped,
                   collected, results, successful_files, files, lifecycle,
                   cleanup_state,
                   side_state>>

\* cleanup_temp_files called a second time, with the same list
CleanupAgain ==
    /\ pc = "Done"
    /\ cleanup_calls = 1
    /\ \E F \in SUBSET Present(successful_files, files) : Cleanup(F)
    /\ UNCHANGED <<segment_links, max_workers, max_retries, cleanup,
                   sorted_links, segment_files, submitted, dispatched, runs,
                   queue, num_threads, status, attempt, calls, first_ok, escaped,
                   collected, results, successful_files, artifact, out_opens,
                   lifecycle,
                   side_state>>

NextCombine ==
    \/ CombineSegments
    \/ CleanupTempFiles
    \/ CombineAgain
    \/ CleanupAgain

SpecCombine == InitCombine /\ [][NextCombine]_vars

-----------------------------------------------------------------------------
(* The start of process() on manifests whose keys are str or int *)

KeyTypes == {"str", "int"}

InitKeys ==
    /\ InitPipeline
    /\ key_type \in KeyTypes
    /\ NameIdle
    /\ ParseIdle
    /\ UiIdle
    /\ TransportIdle
    /\ CaptureIdle

NextKeys == RejectFormat \/ StartDownload

SpecKeys == InitKeys /\ [][NextKeys]_vars

-----------------------------------------------------------------------------
(* The release methods on their own: close(), __exit__ and __del__ called on
   one gluer in any order, any number of times *)

MaxReleaseCalls == 4

ReleaseMethods == {"close", "exit", "del"}

\* a gluer that has just been constructed and runs nothing
CoreBuilt ==
    /\ segment_links = <<>>
    /\ max_workers = 1
    /\ cleanup = FALSE
    /\ pc = "Created"
    /\ sorted_links = <<>>
    /\ segment_files = <<>>
    /\ submitted = 0
    /\ dispatched = <<>>
    /\ runs = <<>>
    /\ queue = <<>>
    /\ num_threads = 0
    /\ status = <<>>
    /\ attempt = <<>>
    /\ calls = <<>>
    /\ first_ok = <<>>
    /\ escaped = <<>>
    /\ collected = 0
    /\ results = <<>>
    /\ successful_files = <<>>
    /\ files = [p \in AllPaths |-> NoFile]
    /\ artifact = NoFile
    /\ out_opens = 0
    /\ session = "open"
    /\ caller = "in_process"
    /\ release_log = <<>>
    /\ release_error = FALSE
    /\ unlink_failed = {}
    /\ cleanup_calls = 0

CoreRest == CoreBuilt /\ output_format = "ts"

CoreIdle == max_retries = 0 /\ CoreRest

InitRelease == CoreIdle /\ SideIdle

\* one call of close(), __exit__(...) or __del__()
CallRelease(method) ==
    /\ Len(release_log) < MaxReleaseCalls
    /\ Release(method)
    /\ UNCHANGED <<segment_links, max_workers, max_retries, cleanup, pc,
                   sorted_links, segment_files, submitted, dispatched, runs,
                   queue, num_threads, status, attempt, calls, first_ok, escaped,
                   collected, results, successful_files, files, artifact,
                   out_opens, output_format, caller, cleanup_state,
                   side_state>>

NextRelease == \E method \in ReleaseMethods : CallRelease(method)

SpecRelease == InitRelease /\ [][NextRelease]_vars

-----------------------------------------------------------------------------
(* The output name: process() from its output_format check to the name it
   hands to combine_segments *)

Dot == <<46>>

\* the characters of an output_format tag
FormatChars(fmt) ==
    CASE fmt = "ts" -> <<116, 115>>
      [] fmt = "mp4" -> <<109, 112, 52>>
      [] OTHER -> <<97, 118, 105>>

\* s.endswith(suffix)
EndsWith(s, suffix) ==
    /\ Len(s) >= Len(suffix)
    /\ SubSeq(s, Len(s) - Len(suffix) + 1, Len(s)) = suffix

\* the position of the last "." of s, 0 if s has none
LastDot(s) ==
    IF \E i \in 1..Len(s) : s[i] = 46
    THEN CHOOSE i \in 1..Len(s) :
            s[i] = 46 /\ \A k \in (i + 1)..Len(s) : s[k] # 46
    ELSE 0

\* s.rsplit('.', 1)[0]: s up to its last ".", the whole of s if it has none
RsplitHead(s) == IF LastDot(s) = 0 THEN s ELSE SubSeq(s, 1, LastDot(s) - 1)

\* a test for the extension "." + tag
EndsWithTagDotted(name, tag) == EndsWith(name, Dot \o tag)

\* `output_filename.endswith(output_format)`: the tag without a "."
EndsWithTag(name, tag) == EndsWith(name, tag)

\* lines 191-192 of process(): the name combine_segments writes to
OutputName(name, tag) ==
    IF EndsWithTag(name, tag) THEN name ELSE RsplitHead(name) \o Dot \o tag

\* the names tried: "", "v", "a.b", "v.a.b", "xmp4" followed by "", ".ts",
\* ".mp4", ".avi", "ts", ".mts", "."
NameStems ==
    { <<>>, <<118>>, <<97, 46, 98>>, <<118, 46, 97, 46, 98>>,
      <<120, 109, 112, 52>> }
NameSuffixes ==
    { <<>>, <<46, 116, 115>>, <<46, 109, 112, 52>>, <<46, 97, 118, 105>>,
      <<116, 115>>, <<46, 109, 116, 115>>, <<46>> }
NameInputs == { stem \o suffix : stem \in NameStems, suffix \in NameSuffixes }

InitName ==
    /\ CoreBuilt
    /\ max_retries = 0
    /\ output_format \in FormatInputs \cup {"mp4"}
    /\ key_type = "str"
    /\ output_filename \in NameInputs
    /\ final_name = NoName
    /\ ParseIdle
    /\ UiIdle
    /\ TransportIdle
    /\ CaptureIdle

\* process(): after the output_format check the name is settled, and it is
\* this name that combine_segments joins to output_dir
NameOutput ==
    /\ pc = "Created"
    /\ caller = "in_process"
    /\ ValidFormat(output_format)
    /\ final_name = NoName
    /\ final_name' = OutputName(output_filename, FormatChars(output_format))
    /\ UNCHANGED <<segment_links, max_workers, max_retries, cleanup, pc,
                   sorted_links, segment_files, submitted, dispatched, runs,
                   queue, num_threads, status, attempt, calls, first_ok, escaped,
                   collected, results, successful_files, files, artifact,
                   out_opens, lifecycle, cleanup_state, key_type,
                   output_filename, parse_state, ui_state, transport_state,
                   capture_state>>

NextName == RejectFormat \/ NameOutput

SpecName == InitName /\ [][NextName]_vars

-----------------------------------------------------------------------------
(* parse_m3u8_file: from the text of an index file to a manifest.  The dict
   it returns is the sequence of its (key, href) items in insertion order;
   a key is the digit sequence of str(i). *)

MaxLines == 3

Newline == 10

\* "https://"
UrlPrefix == <<104, 116, 116, 112, 115, 58, 47, 47>>

\* the lines index files are made of: "https://a", "https://b", "#E",
\* "http://c", "" and " https://a"
LinePool ==
    { UrlPrefix \o <<97>>, UrlPrefix \o <<98>>, <<35, 69>>,
      <<104, 116, 116, 112, 58, 47, 47, 99>>, <<>>,
      <<32>> \o UrlPrefix \o <<97>> }

\* "\n".join(lines)
RECURSIVE JoinLines(_)
JoinLines(lines) ==
    IF lines = <<>> THEN <<>>
    ELSE IF Len(lines) = 1 THEN lines[1]
    ELSE lines[1] \o <<Newline>> \o JoinLines(Tail(lines))

RECURSIVE SeqsUpTo(_, _)
SeqsUpTo(S, n) ==
    IF n = 0 THEN { <<>> }
    ELSE LET shorter == SeqsUpTo(S, n - 1)
         IN  shorter \cup { Append(q, x) : q \in shorter, x \in S }

\* resp.text: what the server answers
IndexTexts == { JoinLines(lines) : lines \in SeqsUpTo(LinePool, MaxLines) }

\* text.split("\n")
RECURSIVE Split(_)
Split(text) ==
    IF \E i \in 1..Len(text) : text[i] = Newline
    THEN LET i == CHOOSE k \in 1..Len(text) :
                     text[k] = Newline /\ \A m \in 1..(k - 1) : text[m] # Newline
         IN  <<SubSeq(text, 1, i - 1)>> \o Split(SubSeq(text, i + 1, Len(text)))
    ELSE <<text>>

\* href.startswith(prefix)
StartsWith(s, prefix) ==
    Len(s) >= Len(prefix) /\ SubSeq(s, 1, Len(prefix)) = prefix

IsSegmentLine(href) == StartsWith(href, UrlPrefix)

\* a comprehension without its condition
KeptLinesAll(lines) == lines

\* [href for href in lines if href.startswith("https://")]
KeptLines(lines) == SelectSeq(lines, IsSegmentLine)

\* str(i) for i >= 0, as a key
RECURSIVE StrOfInt(_)
StrOfInt(i) == IF i < 10 THEN <<i>> ELSE StrOfInt(i \div 10) \o <<i % 10>>

\* {str(i): href for i, href in enumerate(parsed_ts_urls)}
Enumerated(urls) == [i \in 1..Len(urls) |-> <<StrOfInt(i - 1), urls[i]>>]

parse_m3u8_file(text) == Enumerated(KeptLines(Split(text)))

InitParse ==
    /\ CoreIdle
    /\ key_type = "str"
    /\ NameIdle
    /\ index_text \in IndexTexts
    /\ hrefs = NotParsed
    /\ UiIdle
    /\ TransportIdle
    /\ CaptureIdle

\* one call of parse_m3u8_file(index_url)
Parse ==
    /\ hrefs = NotParsed
    /\ hrefs' = parse_m3u8_file(index_text)
    /\ UNCHANGED <<segment_links, max_workers, max_retries, cleanup, pc,
                   sorted_links, segment_files, submitted, dispatched, runs,
                   queue, num_threads, status, attempt, calls, first_ok, escaped,
                   collected, results, successful_files, files, artifact,
                   out_opens, lifecycle, cleanup_state, key_type, name_state,
                   index_text, ui_state, transport_state, capture_state>>

NextParse == Parse

SpecParse == InitParse /\ [][NextParse]_vars

-----------------------------------------------------------------------------
(* The two retry layers of one job: _download_segment_with_retry around
   _download_segment, whose session.get goes through the HTTPAdapter that
   _create_session mounts with a urllib3 Retry.  requests follows a redirect
   by sending the next request through the same adapter, which starts from
   the mounted Retry again. *)

MaxHops == 2

\* status_forcelist of the Retry, and urllib3's Retry.RETRY_AFTER_STATUS_CODES
StatusForcelist == {408, 429, 500, 502, 503, 504}
RetryAfterStatusCodes == {413, 429, 503}
AllowedMethods == {"GET", "POST"}

\* session.get
Method == "GET"

\* the connection or the read failed: no response
TransportError == [status |-> 0, retry_after |-> FALSE]

\* what can come back for one request: a response (its status, and whether
\* it carries a Retry-After header) or a transport failure
Answers ==
    { [status |-> 200, retry_after |-> FALSE],
      [status |-> 302, retry_after |-> FALSE],
      [status |-> 404, retry_after |-> FALSE],
      [status |-> 413, retry_after |-> FALSE],
      [status |-> 413, retry_after |-> TRUE],
      [status |-> 503, retry_after |-> FALSE],
      TransportError }

\* a Retry that looks at the status only
IsRetryForcelistOnly(method, status_code, has_retry_after, tot) ==
    method \in AllowedMethods /\ status_code \in StatusForcelist

\* Retry.is_retry(method, status_code, has_retry_after) on a Retry whose
\* remaining total is tot (respect_retry_after_header is left at True)
IsRetry(method, status_code, has_retry_after, tot) ==
    /\ method \in AllowedMethods
    /\ \/ status_code \in StatusForcelist
       \/ /\ tot # 0
          /\ has_retry_after
          /\ status_code \in RetryAfterStatusCodes

\* a Retry with one more retry than asked for
RetryTotalPlusOne(r) == r + 1

\* Retry(total=self.max_retries)
RetryTotal(r) == r

\* requests follows the response: a 3xx with a Location
IsRedirect(a) == a.status = 302

\* response.raise_for_status() passes
IsOk(a) == a.status = 200

InitTransport ==
    /\ CoreRest
    /\ max_retries \in 0..MaxRetries
    /\ key_type = "str"
    /\ NameIdle
    /\ ParseIdle
    /\ UiIdle
    /\ CaptureIdle
    /\ fetch_attempt = 0
    /\ fetch_result = "running"
    /\ total = RetryTotal(max_retries)
    /\ hops = 0
    /\ redirects = 0
    /\ sent = 0
    /\ last = NoAnswer
    /\ handled = "none"
    /\ all_forced = TRUE

\* _download_segment returned False: the loop of
\* _download_segment_with_retry goes on, or returns False after its last pass
AttemptFailed ==
    IF fetch_attempt < max_retries
    THEN /\ fetch_attempt' = fetch_attempt + 1
         /\ total' = RetryTotal(max_retries)
         /\ hops' = 0
         /\ UNCHANGED fetch_result
    ELSE /\ fetch_result' = "False"
         /\ UNCHANGED <<fetch_attempt, total, hops>>

\* one request of the job goes out and answer a comes back
Request(a) ==
    /\ fetch_result = "running"
    /\ IsRedirect(a) => hops < MaxHops
    /\ sent' = sent + 1
    /\ last' = a
    /\ all_forced' = (all_forced /\ a.status \in StatusForcelist)
    /\ IF a = TransportError \/ IsRetry(Method, a.status, a.retry_after, total)
       THEN IF total - 1 < 0
            THEN \* increment() finds the Retry exhausted: MaxRetryError for
                 \* a failure, the response itself for a status
                 /\ handled' = "exhausted"
                 /\ AttemptFailed
                 /\ UNCHANGED redirects
            ELSE /\ handled' = "retry"
                 /\ total' = total - 1
                 /\ UNCHANGED <<fetch_attempt, fetch_result, hops, redirects>>
       ELSE IF IsRedirect(a)
       THEN /\ handled' = "redirect"
            /\ hops' = hops + 1
            /\ redirects' = redirects + 1
            /\ total' = RetryTotal(max_retries)
            /\ UNCHANGED <<fetch_attempt, fetch_result>>
       ELSE IF IsOk(a)
       THEN /\ handled' = "done"
            /\ fetch_result' = "True"
            /\ UNCHANGED <<fetch_attempt, total, hops, redirects>>
       ELSE /\ handled' = "raise"
            /\ AttemptFailed
            /\ UNCHANGED redirects
    /\ UNCHANGED <<segment_links, max_workers, max_retries, cleanup, pc,
                   sorted_links, segment_files, submitted, dispatched, runs,
                   queue, num_threads, status, attempt, calls, first_ok, escaped,
                   collected, results, successful_files, files, artifact,
                   out_opens, lifecycle, cleanup_state, key_type, name_state,
                   parse_state, ui_state, capture_state>>

NextTransport == \E a \in Answers : Request(a)

SpecTransport == InitTransport /\ [][NextTransport]_vars

-----------------------------------------------------------------------------
(* The window of build_file.py: every click on the download button starts a
   run_download thread, which resets the progress bar and runs its own
   gluer with the bar and the root window as the progress sink.  A call
   into the sink takes time: a thread enters it and leaves it. *)

MaxClicks == 2

UiThreads == 1..clicks

\* positions of a run_download thread at which it is inside a call into the
\* sink: self.progress['value'] = 0, progress["value"] = ..., and
\* root.update_idletasks()
InSink == {"in_reset", "in_set_value", "in_update_idletasks"}

InitUI ==
    /\ CoreIdle
    /\ key_type = "str"
    /\ NameIdle
    /\ ParseIdle
    /\ clicks = 0
    /\ ui_total \in 1..MaxJobs
    /\ ui_pc = <<>>
    /\ ui_i = <<>>
    /\ ui_finished = <<>>
    /\ sink_callers = {}
    /\ meta = TRUE
    /\ progress = <<>>
    /\ selected_folder = CurrentDir
    /\ last_click = NoClick
    /\ TransportIdle
    /\ CaptureIdle

UiRest ==
    UNCHANGED <<segment_links, max_workers, max_retries, cleanup, pc,
                sorted_links, segment_files, submitted, dispatched, runs,
                queue, num_threads, status, attempt, calls, first_ok, escaped,
                collected, results, successful_files, files, artifact,
                out_opens, lifecycle, cleanup_state, key_type, name_state,
                parse_state, transport_state, capture_state, ui_total, meta,
                progress>>

\* the texts the filename entry may hold: "", " ", "v" and " v "
EntryTexts == { <<>>, <<32>>, <<118>>, <<32, 118, 32>> }

\* what the folder dialog may return: "" (cancelled) or the directory "d"
DialogAnswers == { <<>>, <<100>> }

\* str.strip(): without leading and trailing blanks
RECURSIVE Strip(_)
Strip(text) ==
    IF text = <<>> THEN <<>>
    ELSE IF text[1] = 32 THEN Strip(Tail(text))
    ELSE IF text[Len(text)] = 32 THEN Strip(SubSeq(text, 1, Len(text) - 1))
    ELSE text

\* bool(path): pathlib paths define neither __bool__ nor __len__, so every
\* Path object is true, Path() included
PathTruthy(path) == TRUE

\* bool(text) for a str
StrTruthy(text) == text # <<>>

\* select_folder: askdirectory() returns save_dir
SelectFolder(save_dir) ==
    /\ selected_folder' = IF StrTruthy(save_dir) THEN save_dir ELSE selected_folder
    /\ UNCHANGED <<clicks, ui_pc, ui_i, ui_finished, sink_callers, last_click>>
    /\ UiRest

\* initiate_download with text in the filename entry: the two checks, each
\* ending in an error box, then the thread on run_download
Click(text) ==
    /\ clicks < MaxClicks
    /\ LET filename == Strip(text) IN
          IF ~PathTruthy(selected_folder)
          THEN /\ last_click' = [folder |-> selected_folder, filename |-> filename,
                                 did |-> "folder_error"]
               /\ UNCHANGED <<clicks, ui_pc, ui_i, ui_finished>>
          ELSE IF ~StrTruthy(filename)
          THEN /\ last_click' = [folder |-> selected_folder, filename |-> filename,
                                 did |-> "filename_error"]
               /\ UNCHANGED <<clicks, ui_pc, ui_i, ui_finished>>
          ELSE /\ last_click' = [folder |-> selected_folder, filename |-> filename,
                                 did |-> "started"]
               /\ clicks' = clicks + 1
               /\ ui_pc' = Append(ui_pc, "started")
               /\ ui_i' = Append(ui_i, 0)
               /\ ui_finished' = Append(ui_finished, 0)
    /\ UNCHANGED <<sink_callers, selected_folder>>
    /\ UiRest

\* run_download: self.progress['value'] = 0 begins
EnterReset(t) ==
    /\ ui_pc[t] = "started"
    /\ ui_pc' = [ui_pc EXCEPT ![t] = "in_reset"]
    /\ sink_callers' = sink_callers \cup {<<"coordinator", t>>}
    /\ UNCHANGED <<clicks, ui_i, ui_finished>>
    /\ UNCHANGED <<selected_folder, last_click>>
    /\ UiRest

\* the reset returns; download_ui builds the gluer and process() gets as far
\* as the loop over executor.map
LeaveReset(t) ==
    /\ ui_pc[t] = "in_reset"
    /\ ui_pc' = [ui_pc EXCEPT ![t] = "loop"]
    /\ UNCHANGED <<clicks, ui_i, ui_finished, sink_callers>>
    /\ UNCHANGED <<selected_folder, last_click>>
    /\ UiRest

\* a worker of thread t's pool finishes its task (tasks are taken in order);
\* it has no reference to meta and calls nothing of the sink
WorkerFinish(t) ==
    /\ ui_pc[t] \in {"loop", "in_set_value", "in_update_idletasks"}
    /\ ui_finished[t] < ui_total
    /\ ui_finished' = [ui_finished EXCEPT ![t] = @ + 1]
    /\ UNCHANGED <<clicks, ui_pc, ui_i, sink_callers>>
    /\ UNCHANGED <<selected_folder, last_click>>
    /\ UiRest

\* the loop takes the next result and progress["value"] = ... begins
EnterSetValue(t) ==
    /\ ui_pc[t] = "loop"
    /\ ui_i[t] < ui_finished[t]
    /\ ui_pc' = [ui_pc EXCEPT ![t] = "in_set_value"]
    /\ sink_callers' = sink_callers \cup {<<"coordinator", t>>}
    /\ UNCHANGED <<clicks, ui_i, ui_finished>>
    /\ UNCHANGED <<selected_folder, last_click>>
    /\ UiRest

\* progress["value"] = ... returns and root.update_idletasks() begins
EnterUpdateIdletasks(t) ==
    /\ ui_pc[t] = "in_set_value"
    /\ ui_pc' = [ui_pc EXCEPT ![t] = "in_update_idletasks"]
    /\ sink_callers' = sink_callers \cup {<<"coordinator", t>>}
    /\ UNCHANGED <<clicks, ui_i, ui_finished>>
    /\ UNCHANGED <<selected_folder, last_click>>
    /\ UiRest

\* root.update_idletasks() returns; results.append(result); the loop goes on
\* or ends with the last result
LeaveUpdateIdletasks(t) ==
    /\ ui_pc[t] = "in_update_idletasks"
    /\ ui_i' = [ui_i EXCEPT ![t] = @ + 1]
    /\ ui_pc' = [ui_pc EXCEPT ![t] = IF ui_i[t] + 1 = ui_total THEN "done" ELSE "loop"]
    /\ UNCHANGED <<clicks, ui_finished, sink_callers>>
    /\ UNCHANGED <<selected_folder, last_click>>
    /\ UiRest

NextUI ==
    \/ \E save_dir \in DialogAnswers : SelectFolder(save_dir)
    \/ \E text \in EntryTexts : Click(text)
    \/ \E t \in UiThreads : EnterReset(t)
    \/ \E t \in UiThreads : LeaveReset(t)
    \/ \E t \in UiThreads : WorkerFinish(t)
    \/ \E t \in UiThreads : EnterSetValue(t)
    \/ \E t \in UiThreads : EnterUpdateIdletasks(t)
    \/ \E t \in UiThreads : LeaveUpdateIdletasks(t)

SpecUI == InitUI /\ [][NextUI]_vars

-----------------------------------------------------------------------------
(* The run of build_file.py's gluer with a progress sink: process(meta=...) *)

InitProgress ==
    /\ InitPipeline
    /\ key_type = "str"
    /\ NameIdle
    /\ ParseIdle
    /\ UiWindowIdle
    /\ meta = TRUE
    /\ progress = <<>>
    /\ TransportIdle
    /\ CaptureIdle

SpecProgress == InitProgress /\ [][Next]_vars

-----------------------------------------------------------------------------
(* VideoIndexCapturer.get_index_url, as get_index_link calls it: the page is
   open, capture_segments is registered for its requests, and the loop polls
   page.is_closed() once a second until the user has closed the page *)

MaxRequests == 3

\* ".m3u8"
IndexSuffix == <<46, 109, 51, 117, 56>>

\* URLs of the requests a page makes: "a.m3u8", "b.m3u8", "a.ts" and
\* ".m3u8?"
RequestUrls ==
    { <<97>> \o IndexSuffix, <<98>> \o IndexSuffix, <<97, 46, 116, 115>>,
      IndexSuffix \o <<63>> }

\* request.url.endswith(".m3u8")
IsIndexUrl(url) == EndsWith(url, IndexSuffix)

InitCapture ==
    /\ CoreIdle
    /\ key_type = "str"
    /\ NameIdle
    /\ ParseIdle
    /\ UiIdle
    /\ TransportIdle
    /\ cap_pc = "waiting"
    /\ page_closed = FALSE
    /\ observed = <<>>
    /\ index_link = Unset
    /\ returned = Unset

CaptureRest ==
    UNCHANGED <<segment_links, max_workers, max_retries, cleanup, pc,
                sorted_links, segment_files, submitted, dispatched, runs,
                queue, num_threads, status, attempt, calls, first_ok, escaped,
                collected, results, successful_files, files, artifact,
                out_opens, lifecycle, cleanup_state, key_type, name_state,
                parse_state, ui_state, transport_state>>

\* capture_segments(request): the open page makes a request
OnRequest(url) ==
    /\ cap_pc = "waiting"
    /\ ~page_closed
    /\ Len(observed) < MaxRequests
    /\ observed' = Append(observed, url)
    /\ index_link' = IF IsIndexUrl(url) THEN url ELSE index_link
    /\ UNCHANGED <<cap_pc, page_closed, returned>>
    /\ CaptureRest

\* the user closes the page
ClosePage ==
    /\ cap_pc = "waiting"
    /\ ~page_closed
    /\ page_closed' = TRUE
    /\ UNCHANGED <<cap_pc, observed, index_link, returned>>
    /\ CaptureRest

\* the loop finds the page closed, breaks and evaluates self.index_link: an
\* attribute that was never assigned raises AttributeError
ReturnIndexLink ==
    /\ cap_pc = "waiting"
    /\ page_closed
    /\ IF index_link = Unset
       THEN cap_pc' = "AttributeError" /\ UNCHANGED returned
       ELSE cap_pc' = "returned" /\ returned' = index_link
    /\ UNCHANGED <<page_closed, observed, index_link>>
    /\ CaptureRest

NextCapture ==
    \/ \E url \in RequestUrls : OnRequest(url)
    \/ ClosePage
    \/ ReturnIndexLink

SpecCapture == InitCapture /\ [][NextCapture]_vars

-----------------------------------------------------------------------------
(* The run under fair scheduling: every call of _download_segment returns
   or raises (the per-request timeout) and the threads are scheduled, so
   while the coordinating thread, the pool or a worker that holds a job can
   take a step, one of them does.  This follows from fairness to each thread
   and assumes less.  Nothing is assumed of the entry point's end or of the
   finalizer. *)

CoordinatorStep ==
    \/ RejectFormat
    \/ StartDownload
    \/ Submit
    \/ Collect
    \/ ReturnFromDownload
    \/ CheckSegments
    \/ CombineSegments
    \/ CleanupTempFiles

WorkerStep(j) == \E o \in Outcomes : Attempt(j, o)

RunStep ==
    \/ CoordinatorStep
    \/ StartJob
    \/ \E j \in DOMAIN status : WorkerStep(j)

Fairness == WF_vars(RunStep)

\* the manifests checked under fairness
MaxFairJobs == 2

\* runs that start with an empty temp_dir
InitFair ==
    /\ Init
    /\ Len(segment_links) <= MaxFairJobs
    /\ \A p \in AllPaths : files[p] = NoFile

SpecFair == InitFair /\ [][Next]_vars /\ Fairness

-----------------------------------------------------------------------------
(* Properties *)

Succeeded == { j \in Jobs : status[j] = "Succeeded" }
Failed == { j \in Jobs : status[j] = "Failed" }

\* download_all_segments has returned to process()
DownloadReturned == pc \in {"Downloaded", "Assembling", "Cleanup", "Done", "Failed"}

\* combine_segments has returned to process()
Assembled == pc \in {"Cleanup", "Done"}

\* the bodies of a set of segment indices, concatenated in ascending order
RECURSIVE InIndexOrder(_)
InIndexOrder(indices) ==
    IF indices = {} THEN <<>>
    ELSE LET m == CHOOSE n \in indices : \A n2 \in indices : n <= n2
         IN  ChunksOf(m) \o InIndexOrder(indices \ {m})

\* the numeric segment index embedded in a file name segment_<digits>.ts
IndexOfPath(p) ==
    IntOf([i \in 1..(Len(p) - Len(SegmentPrefix) - Len(TsSuffix)) |->
              p[Len(SegmentPrefix) + i] - 48])

\* C1: for every manifest with numerically unique indices, every subset of
\* succeeding jobs and every completion order, the artifact written by
\* process() is the concatenation of the successful segments in ascending
\* numeric index order.
C1_ArtifactInNumericOrder ==
    (NumericallyUnique(segment_links) /\ Assembled)
        => artifact = InIndexOrder({ IntOf(sorted_links[j]) : j \in Succeeded })

\* C2: once download_all_segments has returned, this run has left no file at
\* the destination path of a Failed job: the path holds nothing but what was
\* there before the run (a file an earlier run left is not counted against
\* the claim; a truncated remnant of this run is).
C2_FailedJobLeavesNoFile ==
    DownloadReturned =>
        \A j \in Failed :
            files[segment_files[j]] \in {NoFile, StaleBody(sorted_links[j])}

\* C3: for each job the fetcher is called at most max_retries + 1 times, never
\* again after the first call that succeeded, and exactly max_retries + 1
\* times when every attempt failed, whatever made each attempt fail.
C3_RetryBudget ==
    \A j \in Jobs :
        /\ calls[j] <= max_retries + 1
        /\ first_ok[j] # 0 => calls[j] = first_ok[j]
        /\ status[j] = "Succeeded" => first_ok[j] = calls[j]
        /\ status[j] = "Failed" => (first_ok[j] = 0 /\ calls[j] = max_retries + 1)

\* C3 witness: with a retry budget, one job has used every attempt and failed
\* while another succeeded on a retry.
C3_Witness ==
    /\ max_retries >= 1
    /\ \E j \in Failed : calls[j] = max_retries + 1
    /\ \E j \in Succeeded : calls[j] >= 2

\* C4: a job whose attempts all fail is recorded as a failure and no error
\* leaves its worker task or reaches the coordinator; every other job still
\* ends Succeeded or Failed, the number of successful paths is the number of
\* jobs that succeeded, and when at least one job succeeded process() does not
\* fail: it writes the artifact and returns.
C4_FailureIsRecordedNotRaised ==
    /\ pc # "Raised"
    /\ \A j \in Jobs : ~escaped[j]
    /\ DownloadReturned =>
          /\ \A j \in Jobs : status[j] \in Terminal
          /\ \A j \in Jobs : results[j] = (status[j] = "Succeeded")
          /\ Len(successful_files) = Cardinality(Succeeded)
    /\ (pc = "Failed") => Succeeded = {}
    /\ (pc = "Done") => artifact # NoFile

\* C4 witness: process() has returned although one job used up its attempts,
\* with the other jobs counted as successes.
C4_Witness ==
    /\ pc = "Done"
    /\ Cardinality(Failed) = 1
    /\ Cardinality(Succeeded) >= 2
    /\ Len(successful_files) = Cardinality(Succeeded)

\* C5: when no job of a manifest succeeds, process() raises RuntimeError, the
\* assembler is never entered and the output file is never opened or created.
C5_AllFailedRaisesWithoutArtifact ==
    /\ (DownloadReturned /\ Succeeded = {}) =>
          /\ pc \in {"Downloaded", "Failed"}
          /\ out_opens = 0
          /\ artifact = NoFile
    /\ (pc = "Failed") => (out_opens = 0 /\ artifact = NoFile)

\* C5 witness: a manifest of several jobs, all Failed, and process() has
\* raised RuntimeError.
C5_Witness ==
    /\ pc = "Failed"
    /\ Len(segment_links) >= 2
    /\ Cardinality(Failed) = Len(segment_links)

\* C6: once process() has passed its format check, every manifest entry is one
\* job; a job is never dispatched twice nor
\* run through the retry policy twice, and when download_all_segments has
\* returned every job was dispatched once and run once.
C6_OneTaskPerEntry ==
    (pc \notin {"Created", "ValueError"}) =>
        /\ Len(sorted_links) = Len(segment_links)
        /\ \A i \in 1..Len(segment_links) :
              Cardinality({ j \in Jobs : sorted_links[j] = segment_links[i] }) = 1
        /\ \A j \in Jobs : dispatched[j] <= 1 /\ runs[j] <= dispatched[j]
        /\ DownloadReturned => \A j \in Jobs : dispatched[j] = 1 /\ runs[j] = 1

\* C6 witness: more jobs than workers, all dispatched and run once, and
\* download_all_segments has returned.
C6_Witness ==
    /\ DownloadReturned
    /\ Len(segment_links) >= 3
    /\ max_workers = 2
    /\ \A j \in Jobs : dispatched[j] = 1 /\ runs[j] = 1

\* C7: when download_all_segments has returned, the number of results
\* collected is the number of manifest entries, whatever the outcomes.
C7_OneResultPerJob ==
    DownloadReturned => Len(results) = Len(segment_links)

\* C7 witness: download_all_segments has returned with a mix of successes
\* and failures.
C7_Witness ==
    /\ DownloadReturned
    /\ Failed # {}
    /\ Succeeded # {}
    /\ Len(results) = Len(segment_links)

\* C8: the output file is opened, and process() is past Downloading, only
\* when no job is Pending or Fetching any more.
C8_AssemblyAfterJoin ==
    (DownloadReturned \/ out_opens > 0) =>
        \A j \in Jobs : status[j] \notin {"Pending", "Fetching"}

\* C8 witness: process() is about to assemble a manifest of several jobs.
C8_Witness ==
    /\ pc = "Assembling"
    /\ Len(segment_links) >= 2
    /\ \A j \in Jobs : status[j] \in Terminal

\* C9: at most max_workers jobs are Fetching at any time; a job that has made
\* an attempt and is not yet terminal is still Fetching (it keeps its worker
\* through its retries).
C9_InFlightBounded ==
    /\ Cardinality(Fetching) <= max_workers
    /\ \A j \in Jobs : (calls[j] >= 1 /\ status[j] \notin Terminal) => j \in Fetching

\* C9 witness: the pool is full, one of its jobs is on a retry, and a task
\* is waiting in the queue.
C9_Witness ==
    /\ max_workers = 2
    /\ Cardinality(Fetching) = 2
    /\ queue # <<>>
    /\ \E j \in Fetching : attempt[j] >= 1

\* C10: combine_segments, given the successful paths in any order, writes
\* them in ascending order of the numeric index embedded in the file name,
\* for every index value.
C10_CombineInNumericOrder ==
    (Assembled /\ successful_files # <<>>) =>
        artifact = InIndexOrder({ IndexOfPath(successful_files[i]) :
                                    i \in 1..Len(successful_files) })

\* C11: combine_segments called with an empty list of paths fails with an
\* error and produces no output file.
C11_EmptyListFails ==
    (successful_files = <<>> /\ out_opens > 0) =>
        (pc = "Raised" /\ artifact = NoFile)

\* C12: process() on an empty manifest ends in a hard failure and in nothing
\* else: no task is submitted, no worker thread is started, no fetch is made,
\* the output is never opened, and no other error (such as the division by
\* zero of the success ratio) is raised on the way.
C12_EmptyManifestFails ==
    (segment_links = <<>>) =>
        /\ pc \in {"Created", "Downloading", "Downloaded", "Failed", "ValueError"}
        /\ submitted = 0
        /\ num_threads = 0
        /\ \A j \in DOMAIN calls : calls[j] = 0
        /\ out_opens = 0
        /\ artifact = NoFile
        /\ successful_files = <<>>

\* C12 witness: process() on an empty manifest has raised RuntimeError.
C12_Witness ==
    /\ segment_links = <<>>
    /\ pc = "Failed"
    /\ collected = 0

\* the state of the run in the pipeline state machine of the specification
Phase ==
    IF pc \in {"Downloading", "Downloaded"} THEN "Downloading" ELSE pc

PipelinePhases == {"Created", "Downloading", "Assembling", "Cleanup", "Done", "Failed"}

PipelineSteps ==
    { <<"Created", "Downloading">>, <<"Downloading", "Assembling">>,
      <<"Downloading", "Failed">>, <<"Assembling", "Cleanup">>,
      <<"Assembling", "Done">>, <<"Cleanup", "Done">> }

\* Failed iff zero segments succeeded and without Assembling; Cleanup only
\* after Assembling has completed and only when cleanup is enabled
PhaseConditions ==
    /\ (pc = "Failed") => (Succeeded = {} /\ out_opens = 0)
    /\ (DownloadReturned /\ Succeeded = {}) => pc \in {"Downloaded", "Failed"}
    /\ (pc = "Cleanup" \/ cleanup_calls > 0) => (cleanup /\ out_opens = 1)
    /\ (pc = "Done") => (out_opens = 1 /\ (cleanup => cleanup_calls = 1))

\* C13 as stated: every run of process() is on one of the two paths Created,
\* Downloading, Assembling, (Cleanup,) Done or Created, Downloading, Failed,
\* with Failed iff zero segments succeeded and Cleanup only after Assembling
\* and only when cleanup is enabled.
C13_TwoPathsEveryRun ==
    Phase \in PipelinePhases /\ PhaseConditions

\* C13 as amended: every run of process() with a recognised output_format
\* moves only along Created -> Downloading -> Assembling -> (Cleanup ->) Done
\* or Created -> Downloading -> Failed, never re-entering a state, with Failed
\* iff zero segments succeeded and Cleanup only after Assembling and only when
\* cleanup is enabled; a run with an unrecognised output_format leaves Created
\* only by raising ValueError.
C13_TwoPathsRecognisedFormat ==
    /\ [](ValidFormat(output_format) => (Phase \in PipelinePhases /\ PhaseConditions))
    /\ [](~ValidFormat(output_format) => pc \in {"Created", "ValueError"})
    /\ [][Phase' # Phase =>
            \/ <<Phase, Phase'>> \in PipelineSteps
            \/ (~ValidFormat(output_format) /\ Phase = "Created" /\ Phase' = "ValueError")]_vars

\* C13 witness: a run with cleanup enabled and a failed job has gone through
\* Cleanup to Done.
C13_Witness ==
    /\ pc = "Done"
    /\ cleanup
    /\ cleanup_calls = 1
    /\ Failed # {}

JobSteps ==
    { <<"Pending", "Fetching">>, <<"Fetching", "Succeeded">>, <<"Fetching", "Failed">> }

\* C14: a job's status moves only Pending -> Fetching -> Succeeded or Failed,
\* a terminal status never changes, and once the download phase has ended
\* every job is Succeeded or Failed.
C14_JobStatusForward ==
    /\ [][\A j \in (DOMAIN status) \cap (DOMAIN status') :
              status'[j] # status[j] => <<status[j], status'[j]>> \in JobSteps]_vars
    /\ [](DownloadReturned => \A j \in Jobs : status[j] \in Terminal)

\* C14 witness: the download phase has ended with jobs in both terminal
\* states.
C14_Witness ==
    /\ DownloadReturned
    /\ Succeeded # {}
    /\ Failed # {}

\* C15: when the entry point has ended, on any exit path, the session has
\* been closed by close() or __exit__, not left to the finalizer.
C15_SessionReleasedOnExit ==
    (caller = "exited") =>
        /\ session = "closed"
        /\ \E i \in 1..Len(release_log) : release_log[i] \in {"close", "exit"}

\* C16: after any sequence of close(), __exit__ and __del__ calls, of any
\* length and in any order, no call has raised and the session is closed.
C16_ReleaseIsRepeatable ==
    /\ ~release_error
    /\ (release_log # <<>>) => session = "closed"

\* C16 witness: the three methods have all been called, one of them twice.
C16_Witness ==
    /\ Len(release_log) = MaxReleaseCalls
    /\ \A m \in ReleaseMethods : \E i \in 1..Len(release_log) : release_log[i] = m
    /\ session = "closed"

\* C17: a job that has succeeded, on whichever attempt and whatever earlier
\* attempts wrote, has result True and a destination file that holds exactly
\* the body of its segment (until cleanup removes it).
C17_RetrySuccessSameAsFirst ==
    \A j \in Succeeded :
        /\ (cleanup_calls = 0) => files[segment_files[j]] = Body(sorted_links[j])
        /\ (j <= Len(results)) => results[j]

\* C17 witness: a job has succeeded on a retry and another on its first
\* attempt; both files hold the full body.
C17_Witness ==
    /\ cleanup_calls = 0
    /\ \E j \in Succeeded :
          calls[j] >= 2 /\ files[segment_files[j]] = Body(sorted_links[j])
    /\ \E j \in Succeeded :
          calls[j] = 1 /\ files[segment_files[j]] = Body(sorted_links[j])

\* C18 as stated: after process() has returned the artifact, with cleanup
\* enabled every successful file is absent, with cleanup disabled every one
\* is present and unchanged.
C18_CleanupRemovesAll ==
    (pc = "Done") =>
        \A j \in Succeeded :
            files[segment_files[j]] = IF cleanup THEN NoFile ELSE Body(sorted_links[j])

\* C18 as amended: after process() has returned the artifact, with cleanup
\* enabled every successful file is absent except those whose unlink raised
\* OSError, which are unchanged; with cleanup disabled every one is present
\* and unchanged.
C18_CleanupRemovesUnlessUnlinkFails ==
    (pc = "Done") =>
        \A j \in Succeeded :
            files[segment_files[j]] =
                IF cleanup /\ segment_files[j] \notin unlink_failed THEN NoFile
                ELSE Body(sorted_links[j])

\* C18 witness: process() has returned with cleanup enabled and several
\* successful files removed.
C18_Witness ==
    /\ pc = "Done"
    /\ cleanup
    /\ Cardinality(Succeeded) >= 2
    /\ \A j \in Succeeded : files[segment_files[j]] = NoFile

\* the files of temp_dir before any cleanup, when combine_segments is called
\* on its own
FilesBeforeCleanup ==
    [p \in AllPaths |->
        IF p \in PathsOf(successful_files)
        THEN Body(CHOOSE k \in KeyPool : p = SegmentFile(k))
        ELSE NoFile]

\* C19: cleanup_temp_files never raises: after one call or two, with files
\* already absent or not removable, process() is still at Done, every file
\* whose unlink did not fail is gone and every other file is untouched: what
\* a single call with the same unremovable files leaves.
C19_CleanupNeverRaises ==
    (cleanup_calls >= 1) =>
        /\ (pc = "Raised") => (out_opens = 2 /\ ~AllRead(successful_files, files))
        /\ files = [p \in AllPaths |->
                      IF p \in PathsOf(successful_files) \ unlink_failed THEN NoFile
                      ELSE FilesBeforeCleanup[p]]
        /\ artifact # NoFile

\* C19 witness: cleanup has been called twice, files were absent at the
\* second call and one unlink failed both times.
C19_Witness ==
    /\ cleanup_calls = 2
    /\ pc = "Done"
    /\ unlink_failed # {}
    /\ \E p \in PathsOf(successful_files) : files[p] = NoFile

\* C20: a second run of combine_segments on the same, unchanged files and
\* the same output path leaves the output as the first run left it.
C20_CombineTwiceSameOutput ==
    [][(out_opens = 1 /\ out_opens' = 2 /\ cleanup_calls = 0)
          => (artifact' = artifact /\ pc' = "Done")]_vars

\* C20 witness: combine_segments has run twice on several files that were
\* not cleaned up.
C20_Witness ==
    /\ out_opens = 2
    /\ cleanup_calls = 0
    /\ Len(successful_files) >= 2
    /\ artifact = Concat(SortedPaths(successful_files), files)

\* C26: no step of a run changes the manifest held by the gluer: sort_links,
\* download_all_segments, combine_segments, cleanup_temp_files and process
\* leave segment_links as it was, on success and on failure alike.
C26_ManifestUnchanged ==
    [][segment_links' = segment_links]_vars

\* C26 witness: a run on a manifest that is not in numeric order has gone
\* through download, assembly and cleanup with a failed job, and the manifest
\* still differs from its sorted copy.
C26_Witness ==
    /\ pc = "Done"
    /\ cleanup_calls = 1
    /\ Failed # {}
    /\ segment_links # sorted_links
    /\ sorted_links = sort_links(segment_links)

\* C27: once download_all_segments has returned, a destination path is in the
\* returned list iff its own job succeeded, whatever the file of a failed job
\* holds, and the list is in ascending numeric index order.
C27_ReturnedIffSucceeded ==
    DownloadReturned =>
        /\ \A j \in Jobs :
              (\E i \in 1..Len(successful_files) : successful_files[i] = segment_files[j])
                  <=> (status[j] = "Succeeded")
        /\ \A i \in 1..Len(successful_files) :
              \E j \in Jobs : successful_files[i] = segment_files[j]
        /\ \A i, k \in 1..Len(successful_files) :
              i < k => IndexOfPath(successful_files[i]) < IndexOfPath(successful_files[k])

\* C27 witness: download_all_segments has returned two successes and, before
\* the last of them in index order, a failed job whose file exists.
C27_Witness ==
    /\ pc = "Downloaded"
    /\ Cardinality(Succeeded) >= 2
    /\ \E j \in Failed :
          /\ files[segment_files[j]] # NoFile
          /\ \E k \in Succeeded : j < k

\* C28: with numerically unique indices the destination paths of the jobs are
\* pairwise distinct, so two jobs being fetched never have the same file and
\* no path is twice in the successful-path list.
C28_DistinctPaths ==
    NumericallyUnique(segment_links) =>
        /\ \A j, k \in 1..Len(segment_files) :
              j # k => segment_files[j] # segment_files[k]
        /\ \A j, k \in Fetching :
              j # k => segment_files[j] # segment_files[k]
        /\ \A i, k \in 1..Len(successful_files) :
              i # k => successful_files[i] # successful_files[k]

\* C28 witness: two jobs, one of them with an index of five digits, are
\* being fetched at the same time.
C28_Witness ==
    /\ Cardinality(Fetching) = 2
    /\ \E j \in Fetching : Len(sorted_links[j]) > ZfillWidth
    /\ \E j \in Fetching : Len(sorted_links[j]) < ZfillWidth

\* C29 as stated: under fair scheduling, with every fetch attempt
\* terminating, every run of process() eventually reaches Done or Failed.
C29_EveryRunEnds ==
    <>(pc \in {"Done", "Failed"})

\* C29 as amended: under fair scheduling, with every fetch attempt
\* terminating, every run of process() with a recognised output_format
\* eventually has every job in a terminal state, the pool joined, and
\* process() at Done or Failed; a run with an unrecognised output_format
\* ends with ValueError.
C29_EveryValidRunEnds ==
    <>(IF ValidFormat(output_format)
       THEN /\ pc \in {"Done", "Failed"}
            /\ \A j \in Jobs : status[j] \in Terminal
            /\ PoolJoined
       ELSE pc = "ValueError")

\* C29 witness: a run with more jobs than workers, a job that succeeded on
\* a retry and a job that failed has reached Done.
C29_Witness ==
    /\ pc = "Done"
    /\ Len(segment_links) > max_workers
    /\ \E j \in Succeeded : calls[j] >= 2
    /\ Failed # {}

\* C25: a manifest with int keys is processed like the manifest with the
\* same keys as decimal strings: process() gets past the creation of the
\* destination paths with the same dispatch order and the same paths.
C25_IntKeysLikeStrKeys ==
    (key_type = "int" /\ ValidFormat(output_format) /\ pc # "Created") =>
        /\ pc = "Downloading"
        /\ sorted_links = sort_links(segment_links)
        /\ segment_files =
              [i \in 1..Len(segment_links) |-> SegmentFile(sort_links(segment_links)[i])]

\* C23: for every output filename and each recognised tag t the name of the
\* artifact ends with "." + t: a name that already has the extension .t is
\* kept, any other name has its last suffix replaced by (or is extended
\* with) "." + t.
C23_NameEndsWithDotTag ==
    final_name # NoName =>
        LET t == FormatChars(output_format) IN
            /\ EndsWithTagDotted(final_name, t)
            /\ EndsWithTagDotted(output_filename, t) => final_name = output_filename
            /\ ~EndsWithTagDotted(output_filename, t) =>
                   final_name = RsplitHead(output_filename) \o Dot \o t

\* the lines of the index file, and the positions of those that begin with
\* "https://"
FileLines == Split(index_text)
SegmentPositions == { n \in 1..Len(FileLines) : IsSegmentLine(FileLines[n]) }
\* the number of segment lines above line n
RankOf(n) == Cardinality({ m \in SegmentPositions : m < n })

\* C24 (as stated): every line that begins with "https://" is one segment
\* and no other line is, and each segment's index is the 0-based position of
\* its line in the file.
C24_IndexIsLinePosition ==
    hrefs # NotParsed =>
        /\ Len(hrefs) = Cardinality(SegmentPositions)
        /\ \A n \in SegmentPositions :
              \E e \in 1..Len(hrefs) : hrefs[e] = <<StrOfInt(n - 1), FileLines[n]>>

\* C24 (amended): every line that begins with "https://" is one segment and
\* no other line is, in file order, and each segment's index is the 0-based
\* position of its line among the segment lines.
C24_IndexIsSegmentRank ==
    hrefs # NotParsed =>
        /\ Len(hrefs) = Cardinality(SegmentPositions)
        /\ \A n \in SegmentPositions :
              hrefs[RankOf(n) + 1] = <<StrOfInt(RankOf(n)), FileLines[n]>>

\* a parsed file with two segment lines and another line above one of them
C24_Witness ==
    /\ hrefs # NotParsed
    /\ Len(hrefs) >= 2
    /\ \E n \in SegmentPositions : RankOf(n) # n - 1

\* the answer is a transport failure or a status of the retry list
ForcedAnswer(a) == a = TransportError \/ a.status \in {408, 429, 500, 502, 503, 504}
\* the answer is a 413, 429 or 503 that carries a Retry-After header
RetryAfterAnswer(a) == a.retry_after /\ a.status \in {413, 429, 503}

\* C22 (as stated): a request is retried at transport level when, and only
\* when, its answer is a transport failure or a status of 408, 429, 500,
\* 502, 503, 504 (while retries remain); the fetch fails for such an answer
\* only once the retries are used up; any other status is not retried.
C22_RetryIffForcelist ==
    [][sent' = sent + 1 =>
          /\ handled' = "retry" <=> (ForcedAnswer(last') /\ total > 0)
          /\ handled' = "exhausted" <=> (ForcedAnswer(last') /\ total = 0)
          /\ last'.status = 404 => handled' = "raise"]_vars

\* C22 (amended): as above, and a 413, 429 or 503 that carries a
\* Retry-After header is retried as well while retries remain.
C22_RetryIffForcelistOrRetryAfter ==
    [][sent' = sent + 1 =>
          /\ handled' = "retry" <=>
                ((ForcedAnswer(last') \/ RetryAfterAnswer(last')) /\ total > 0)
          /\ handled' = "exhausted" <=> (ForcedAnswer(last') /\ total = 0)
          /\ last'.status = 404 => handled' = "raise"]_vars

\* a 413 with Retry-After has been retried, after an earlier request of the
\* same job
C22_Witness ==
    /\ handled = "retry"
    /\ last = [status |-> 413, retry_after |-> TRUE]
    /\ sent >= 2
    /\ fetch_result = "running"

\* C30 (as stated): one job sends at most (maxRetries+1) * (maxRetries+1)
\* requests, and exactly that many when every answer is a status of the
\* transport retry list.
C30_RequestsAtMostSquare ==
    /\ sent <= (max_retries + 1) * (max_retries + 1)
    /\ (fetch_result = "False" /\ all_forced) =>
           sent = (max_retries + 1) * (max_retries + 1)

\* C30 (amended): one job sends at most (maxRetries+1) requests for each
\* attempt started and each redirect followed, hence at most
\* (maxRetries+1) * (maxRetries+1) when no redirect is followed, and exactly
\* that many when every answer is a status of the transport retry list.
C30_RequestsAtMostSquarePlusRedirects ==
    /\ sent <= (max_retries + 1) * (fetch_attempt + 1 + redirects)
    /\ redirects = 0 => sent <= (max_retries + 1) * (max_retries + 1)
    /\ (fetch_result = "False" /\ all_forced) =>
           sent = (max_retries + 1) * (max_retries + 1)

\* the job of a URL that always answered with a status of the retry list has
\* failed after (maxRetries+1) * (maxRetries+1) requests, maxRetries >= 1
C30_Witness ==
    /\ fetch_result = "False"
    /\ all_forced
    /\ max_retries >= 1
    /\ redirects = 0
    /\ sent = (max_retries + 1) * (max_retries + 1)

\* the threads that are inside a call into the progress sink
ThreadsInSink == { t \in UiThreads : ui_pc[t] \in InSink }

\* C21: every call into the progress sink comes from the coordinating
\* context that runs download_all_segments, never from a worker task, and
\* no two calls into the sink are in progress at the same time.
C21_SinkCallsNeverConcurrent ==
    /\ \A c \in sink_callers : c[1] = "coordinator"
    /\ Cardinality(ThreadsInSink) <= 1

\* C32: process() with an output container tag other than 'ts' or 'mp4'
\* raises ValueError, and does so before any job is dispatched: no task is
\* submitted, no worker thread started, no request made, no segment file
\* written and no artifact created.
C32_BadTagRaisesBeforeDispatch ==
    /\ output_format \notin {"ts", "mp4"} => pc \in {"Created", "ValueError"}
    /\ pc = "ValueError" =>
          /\ output_format \notin {"ts", "mp4"}
          /\ submitted = 0
          /\ num_threads = 0
          /\ queue = <<>>
          /\ calls = <<>>
          /\ files \in InitialFiles(segment_links)
          /\ artifact = NoFile
          /\ out_opens = 0

\* a run on a non-empty manifest has been refused for its tag; the file an
\* earlier run left in temp_dir is still there
C32_Witness ==
    /\ pc = "ValueError"
    /\ segment_links # <<>>
    /\ \E p \in AllPaths : files[p] # NoFile

\* C33: cleanup_temp_files removes only files of the successful-path set:
\* the call made by process() leaves the artifact as combine_segments wrote
\* it and leaves every other file of temp_dir, the files at the destination
\* paths of Failed jobs among them, as it found them.
C33_CleanupTouchesOnlySuccessful ==
    [][(pc = "Cleanup" /\ cleanup_calls' = cleanup_calls + 1) =>
          /\ artifact' = artifact
          /\ \A p \in AllPaths \ PathsOf(successful_files) : files'[p] = files[p]
          /\ \A j \in Failed : files'[segment_files[j]] = files[segment_files[j]]
          /\ \A p \in PathsOf(successful_files) : files'[p] \in {NoFile, files[p]}]_vars

\* cleanup has run and removed a successful file, while the file at the
\* destination path of a Failed job and the artifact are still there
C33_Witness ==
    /\ pc = "Done"
    /\ cleanup_calls = 1
    /\ artifact # NoFile
    /\ \E j \in Succeeded : files[segment_files[j]] = NoFile
    /\ \E j \in Failed : files[segment_files[j]] # NoFile

\* a < b for two values of the bar
ValueLess(a, b) == a[1] * b[2] < b[1] * a[2]

\* C31: with a progress sink and N > 0 jobs the k-th update sets k/N*100,
\* so the values strictly increase; the k-th update is made only after the k
\* jobs with the lowest indices are all terminal, whether they succeeded or
\* failed; a download that has returned has made exactly N updates, the last
\* of them 100.
C31_ProgressUpdates ==
    (meta /\ Len(segment_files) > 0) =>
        LET N == Len(segment_files) IN
            /\ Len(progress) = collected
            /\ Len(progress) <= N
            /\ \A k \in 1..Len(progress) :
                  /\ progress[k] = <<100 * k, N>>
                  /\ \A j \in 1..k : status[j] \in Terminal
                  /\ k > 1 => ValueLess(progress[k - 1], progress[k])
            /\ DownloadReturned =>
                  /\ Len(progress) = N
                  /\ progress[N][1] = 100 * progress[N][2]

\* an update has been made for a Failed job; the next job in index order is
\* still running while a job with a higher index has ended, and no update
\* has been made for either
C31_Witness ==
    /\ meta
    /\ pc = "Downloading"
    /\ Len(progress) >= 1
    /\ \E j \in 1..collected : status[j] = "Failed"
    /\ collected + 1 \in Jobs
    /\ status[collected + 1] \notin Terminal
    /\ \E j \in Jobs : j > collected + 1 /\ status[j] \in Terminal

\* the positions of the observed requests whose URL ends with ".m3u8"
IndexRequests == { n \in 1..Len(observed) : EndsWith(observed[n], <<46, 109, 51, 117, 56>>) }

\* C34: get_index_url ends only after the page has been closed; it always
\* ends by returning, never by raising, whatever requests were observed; and
\* the value returned is the URL of the last observed request whose URL ends
\* with ".m3u8".
C34_ReturnsLastIndexUrl ==
    /\ cap_pc \in {"returned", "AttributeError"} => page_closed
    /\ cap_pc # "AttributeError"
    /\ cap_pc = "returned" =>
          /\ IndexRequests # {}
          /\ \E n \in IndexRequests :
                /\ returned = observed[n]
                /\ \A m \in IndexRequests : m <= n

\* C35: initiate_download starts a download thread only when a folder has
\* been selected and the trimmed filename is not empty; when no folder has
\* been selected or the filename is empty it shows an error and starts no
\* download.
C35_StartsOnlyWithFolderAndName ==
    last_click # NoClick =>
        LET ready == last_click.folder # <<46>> /\ last_click.filename # <<>> IN
            /\ last_click.did = "started" <=> ready
            /\ ~ready => last_click.did \in {"folder_error", "filename_error"}

=============================================================================
